---- MODULE Spec2Model ----
(***************************************************************************)
(* Blue Prism export converters: the stage extractor and CSV exporter of   *)
(* extract_details.py, the document splitters of xml_get_elements.py and   *)
(* xml_process_extractor.py, and the batch drivers.                        *)
(*                                                                         *)
(* A document is a sequence of lexical tokens (opening tags with their     *)
(* attribute list, closing tags, text runs).  The regular expressions of   *)
(* the source are evaluated on that sequence the way re evaluates them on  *)
(* the characters: leftmost match first, non-overlapping, lazy bodies      *)
(* ending at the first closing tag.  Attribute values and text runs of the *)
(* model hold no '<' or '"', and stage-tag attribute values hold no '>'.   *)
(***************************************************************************)
EXTENDS Integers, Sequences, FiniteSets, TLC

VARIABLES
    content,        \* extract_process_details: the text read from xml_file
    pc,             \* position of the extract/export run
    results,        \* the dict returned by extract_process_details
    subsheetsCsv,   \* rows of <prefix>_subsheets.csv
    stagesCsv,      \* rows of <prefix>_stages.csv
    runs,           \* how many times the script was started on this document
    first_run,      \* the two CSV files as the first run left them
    input_file,     \* split_by_element: the file it is given
    contents,       \* split_by_element: the children of <bpr:contents>
    epc,            \* position of split_by_element
    files_created,  \* split_by_element: its counter
    element_id,     \* split_by_element: the identifier of the last element
    element_files,  \* the files under element_files/, path -> chunks written
    temp_file,      \* split_by_process: the file it is given
    processes,      \* split_by_process: the elements or regex matches to write
    mode,           \* split_by_process: "tree" or "regex"
    ppc,            \* position of split_by_process
    files_written,  \* split_by_process: its files_created counter
    process_id,     \* split_by_process: the identifier of the last process
    process_files,  \* the files under output_dir, path -> chunks written
    tool,           \* batch: "extract", "calendar" or "schedule"
    folder_exists,  \* batch: whether the input folder exists
    xml_files,      \* batch: the listing of the input folder
    bpc,            \* position of the batch
    next_file,      \* batch: index of the next entry of the listing
    attempted,      \* batch: the names printed after "Processing:"
    details_csv,    \* batch of extract_details: name -> CSV files written for it
    all_info,       \* all_calendars / all_schedules
    csv_writable,   \* whether output_csv can be opened for writing
    output_csv,     \* the summary CSV: its rows
    variant,        \* script: "src" or "scripts", the extract_details.py that runs
    fs,             \* script: the files and folders it finds
    file_path,      \* script: its file_path variable
    spc,            \* position of the script
    processed,      \* script: the files extraction and export were applied to
    lines,          \* remove_xml_headers: the lines of input_file
    hpc,            \* position of remove_xml_headers
    temp_output_file,   \* remove_xml_headers: the lines written to it
    code,           \* binary_to_dictionary: its argument
    cpc,            \* position of the calendar script
    days_dictionary \* the dict binary_to_dictionary returned

extractVars == <<content, pc, results, subsheetsCsv, stagesCsv, runs, first_run>>
elementVars == <<input_file, contents, epc, files_created, element_id, element_files>>
processVars == <<temp_file, processes, mode, ppc, files_written, process_id, process_files>>
batchVars == <<tool, folder_exists, xml_files, bpc, next_file, attempted, details_csv, all_info,
               csv_writable, output_csv>>
scriptVars == <<variant, fs, file_path, spc, processed>>
headerVars == <<lines, hpc, temp_output_file>>
calendarVars == <<code, cpc, days_dictionary>>
vars == <<extractVars, elementVars, processVars, batchVars, scriptVars, headerVars,
          calendarVars>>

\* the variables of the other tools
besidesExtract == <<elementVars, processVars, batchVars, scriptVars,
    headerVars, calendarVars>>
besidesElement == <<extractVars, processVars, batchVars, scriptVars,
    headerVars, calendarVars>>
besidesProcess == <<extractVars, elementVars, batchVars, scriptVars,
    headerVars, calendarVars>>
besidesBatch == <<extractVars, elementVars, processVars, scriptVars,
    headerVars, calendarVars>>
besidesHeaders == <<extractVars, elementVars, processVars, batchVars, scriptVars,
    calendarVars>>
besidesCalendar == <<extractVars, elementVars, processVars, batchVars, scriptVars,
    headerVars>>
besidesScript == <<extractVars, elementVars, processVars, batchVars,
    headerVars, calendarVars>>

\* the summary CSV a run finds
PreviousCsv == <<"previous">>

\* the variables of a tool that is not running
BatchIdle ==
    /\ tool = "" /\ folder_exists = FALSE /\ xml_files = <<>> /\ bpc = "idle"
    /\ next_file = 0
    /\ attempted = <<>> /\ details_csv = <<>> /\ all_info = <<>>
    /\ csv_writable = FALSE /\ output_csv = PreviousCsv
ScriptIdle ==
    /\ variant = "" /\ fs = <<>> /\ file_path = [py |-> "None"] /\ spc = "idle"
    /\ processed = {}
HeadersIdle == lines = <<>> /\ hpc = "idle" /\ temp_output_file = <<>>
CalendarIdle == code = 0 /\ cpc = "idle" /\ days_dictionary = <<>>
ExtractIdle ==
    /\ content = <<>> /\ pc = "idle" /\ results = [py |-> "None"]
    /\ subsheetsCsv = <<>> /\ stagesCsv = <<>>
    /\ runs = 0 /\ first_run = <<>>
ElementIdle ==
    /\ input_file = <<>> /\ contents = <<>> /\ epc = "idle" /\ files_created = 0
    /\ element_id = <<>> /\ element_files = <<>>
ProcessIdle ==
    /\ temp_file = <<>> /\ processes = <<>> /\ mode = "" /\ ppc = "idle"
    /\ files_written = 0 /\ process_id = <<>> /\ process_files = <<>>

(***************************************************************************)
(* Bounds                                                                  *)
(***************************************************************************)
MaxElems == 2       \* elements per document
MaxChildren == 2    \* children of <bpr:contents>
MaxProcs == 2       \* process elements per document
MaxFiles == 3       \* entries of an input folder
MaxRuns == 2        \* runs of the script on one document
MaxEntries == 2     \* entries of process_files
MaxLines == 3       \* lines of a release file
MaxCode == 130      \* working-week codes

(***************************************************************************)
(* Python values                                                           *)
(***************************************************************************)
None == [py |-> "None"]
S(s) == [py |-> "str", v |-> s]
L(l) == [py |-> "list", l |-> l]

(***************************************************************************)
(* Tokens                                                                  *)
(***************************************************************************)
Attr(n, v) == [n |-> n, v |-> v]
\* n in t.attrib, t.attrib[n]
HasAttr(t, n) == \E i \in DOMAIN t.attrs : t.attrs[i].n = n
AttrOf(t, n) == t.attrs[CHOOSE i \in DOMAIN t.attrs : t.attrs[i].n = n].v
Open(tag, attrs, sc) == [k |-> "open", tag |-> tag, attrs |-> attrs, sc |-> sc, v |-> ""]
Close(tag) == [k |-> "close", tag |-> tag, attrs |-> <<>>, sc |-> FALSE, v |-> ""]
Text(v) == [k |-> "text", tag |-> "", attrs |-> <<>>, sc |-> FALSE, v |-> v]

IsOpen(t, tag) == t.k = "open" /\ t.tag = tag
IsClose(t, tag) == t.k = "close" /\ t.tag = tag
\* a bare opening tag "<tag>"
IsBare(t, tag) == IsOpen(t, tag) /\ t.attrs = <<>> /\ ~t.sc

\* content.replace('&lt;', '<').replace('&gt;', '>').replace('&amp;', '&')
DecodeVal(v) ==
    CASE v = "X&gt;1" -> "X>1"
      [] v = "A&amp;B" -> "A&B"
      [] OTHER -> v

DecodeToken(t) ==
    [t EXCEPT !.v = DecodeVal(@),
              !.attrs = [i \in DOMAIN @ |-> Attr(@[i].n, DecodeVal(@[i].v))]]

Decode(c) == [i \in DOMAIN c |-> DecodeToken(c[i])]

(***************************************************************************)
(* Regular expressions of extract_process_details                          *)
(***************************************************************************)
\* the least of a set of positions, or 0: where a search from the left matches
Least(hits) ==
    IF hits = {} THEN 0 ELSE CHOOSE i \in hits : \A j \in hits : i <= j

\* <stage\s+stageid="([^"]+)"\s+name="([^"]+)"\s+type="([^"]+)"[^>]*>
StageHead(t) ==
    /\ IsOpen(t, "stage")
    /\ Len(t.attrs) >= 3
    /\ t.attrs[1].n = "stageid" /\ t.attrs[1].v # ""
    /\ t.attrs[2].n = "name" /\ t.attrs[2].v # ""
    /\ t.attrs[3].n = "type" /\ t.attrs[3].v # ""

StageClose(t) == IsClose(t, "stage")

\* re.finditer(stage_pattern, content, re.DOTALL): the matches from position
\* `from` on, each with its head token and the tokens of group 4
RECURSIVE StageMatches(_, _)
StageMatches(c, from) ==
    LET i == Least({q \in (from)..Len(c) : StageHead(c[q])})
        j == IF i = 0 THEN 0 ELSE Least({q \in (i + 1)..Len(c) : StageClose(c[q])})
    IN  IF j = 0 THEN <<>>
        ELSE <<[head |-> c[i], body |-> SubSeq(c, i + 1, j - 1)]>>
             \o StageMatches(c, j + 1)

\* <stage[^>]*subsheetid="([^"]+)" : the greedy [^>]* takes the last such attribute
SubsheetAttrs(t) == {i \in DOMAIN t.attrs : t.attrs[i].n = "subsheetid" /\ t.attrs[i].v # ""}
\* tag names the text "<stage" begins
StagePrefixed == {"stage", "stagegroup"}
SubsheetHead(t) == t.k = "open" /\ t.tag \in StagePrefixed /\ SubsheetAttrs(t) # {}
SubsheetValue(t) ==
    LET i == CHOOSE m \in SubsheetAttrs(t) : \A o \in SubsheetAttrs(t) : o <= m
    IN  t.attrs[i].v

\* set(re.findall(subsheet_pattern, content))
SubsheetSet(c) == {SubsheetValue(c[i]) : i \in {m \in DOMAIN c : SubsheetHead(c[m])}}

\* <tag>([^<]+)</tag> : re.search, group 1 or None
RECURSIVE TagText(_, _, _)
TagText(body, tag, from) ==
    IF from + 2 > Len(body) THEN None
    ELSE IF /\ IsBare(body[from], tag)
            /\ body[from + 1].k = "text" /\ body[from + 1].v # ""
            /\ IsClose(body[from + 2], tag)
         THEN S(body[from + 1].v)
         ELSE TagText(body, tag, from + 1)

\* <decision expression="([^"]+)"
DecisionHead(t) ==
    /\ IsOpen(t, "decision") /\ Len(t.attrs) >= 1
    /\ t.attrs[1].n = "expression" /\ t.attrs[1].v # ""

\* <calculation expression="([^"]+)"\s+stage="([^"]+)"
CalculationHead(t) ==
    /\ IsOpen(t, "calculation") /\ Len(t.attrs) >= 2
    /\ t.attrs[1].n = "expression" /\ t.attrs[1].v # ""
    /\ t.attrs[2].n = "stage" /\ t.attrs[2].v # ""

\* position of an attribute name in exc_pattern, 0 if it is not one of the four
ExcOrder(n) ==
    CASE n = "localized" -> 1
      [] n = "type" -> 2
      [] n = "detail" -> 3
      [] n = "usecurrent" -> 4
      [] OTHER -> 0

\* <exception\s+(?:localized=..)?\s*(?:type=..)?\s*(?:detail=..)?\s*(?:usecurrent=..)?\s*/?>
\* the tag's attributes are some of the four, in that order, none empty; a tag
\* without attributes needs the blank of "<exception />"
ExceptionHead(t) ==
    /\ IsOpen(t, "exception")
    /\ \A i \in DOMAIN t.attrs : ExcOrder(t.attrs[i].n) # 0 /\ t.attrs[i].v # ""
    /\ \A i, j \in DOMAIN t.attrs : i < j => ExcOrder(t.attrs[i].n) < ExcOrder(t.attrs[j].n)
    /\ (t.attrs = <<>> => t.sc)

\* exc_match.group(k) if exc_match.group(k) else ''
ExcGroup(t, n) ==
    IF \E i \in DOMAIN t.attrs : t.attrs[i].n = n
    THEN S(t.attrs[CHOOSE i \in DOMAIN t.attrs : t.attrs[i].n = n].v)
    ELSE S("")

StepsOpen(t) == IsBare(t, "steps")
StepsClose(t) == IsClose(t, "steps")

\* <steps>(.*?)</steps> : group 1, or <<>> with found = FALSE
StepsMatch(body) ==
    LET i == Least({q \in (1)..Len(body) : StepsOpen(body[q])})
        j == IF i = 0 THEN 0 ELSE Least({q \in (i + 1)..Len(body) : StepsClose(body[q])})
    IN  IF j = 0 THEN [found |-> FALSE, body |-> <<>>]
        ELSE [found |-> TRUE, body |-> SubSeq(body, i + 1, j - 1)]

\* the calculations list built by the finditer loop over steps_content
RECURSIVE Calculations(_, _)
Calculations(steps, from) ==
    LET i == Least({q \in (from)..Len(steps) : CalculationHead(steps[q])})
    IN  IF i = 0 THEN <<>>
        ELSE <<[expression |-> S(steps[i].attrs[1].v), stage |-> S(steps[i].attrs[2].v)]>>
             \o Calculations(steps, i + 1)

(***************************************************************************)
(* extract_process_details                                                 *)
(***************************************************************************)
\* stage_type == "Decision"
DecisionFields(body) ==
    LET e == Least({q \in (1)..Len(body) : DecisionHead(body[q])})
    IN  [expression |-> IF e # 0 THEN S(body[e].attrs[1].v) ELSE None,
         ontrue |-> TagText(body, "ontrue", 1),
         onfalse |-> TagText(body, "onfalse", 1)]

\* stage_type == "Calculation"
CalculationFields(body) ==
    LET m == Least({q \in (1)..Len(body) : CalculationHead(body[q])})
    IN  IF m # 0
        THEN [expression |-> S(body[m].attrs[1].v),
              calculation_stage |-> S(body[m].attrs[2].v)]
        ELSE <<>>

\* stage_type == "Exception"
ExceptionFields(body) ==
    LET m == Least({q \in (1)..Len(body) : ExceptionHead(body[q])})
    IN  IF m # 0
        THEN [localized |-> ExcGroup(body[m], "localized"),
              exception_type |-> ExcGroup(body[m], "type"),
              exception_detail |-> ExcGroup(body[m], "detail"),
              usecurrent |-> ExcGroup(body[m], "usecurrent")]
        ELSE <<>>

\* stage_type == "MultipleCalculation"
MultipleCalculationFields(body) ==
    LET sm == StepsMatch(body)
    IN  [calculations |-> L(IF sm.found THEN Calculations(sm.body, 1) ELSE <<>>)]

\* mutant: the last elif taken as an else
TypeFieldsElse(stage_type, body) ==
    CASE stage_type = "Decision" -> DecisionFields(body)
      [] stage_type = "Calculation" -> CalculationFields(body)
      [] stage_type = "Exception" -> ExceptionFields(body)
      [] OTHER -> MultipleCalculationFields(body)

\* the type-specific fields stage_info is updated with
TypeFields(stage_type, body) ==
    CASE stage_type = "Decision" -> DecisionFields(body)
      [] stage_type = "Calculation" -> CalculationFields(body)
      [] stage_type = "Exception" -> ExceptionFields(body)
      [] stage_type = "MultipleCalculation" -> MultipleCalculationFields(body)
      [] OTHER -> <<>>

\* the stage_info dict of one match
StageInfo(m) ==
    TypeFields(m.head.attrs[3].v, m.body)
    @@ [stageid |-> S(m.head.attrs[1].v),
        name |-> S(m.head.attrs[2].v),
        type |-> S(m.head.attrs[3].v),
        onsuccess |-> TagText(m.body, "onsuccess", 1)]

Stages(c) ==
    LET ms == StageMatches(c, 1)
    IN  [i \in DOMAIN ms |-> StageInfo(ms[i])]

\* the orders list(set) can give
Orders(set) ==
    {o \in [1..Cardinality(set) -> set] : \A i, j \in DOMAIN o : i # j => o[i] # o[j]}

(***************************************************************************)
(* export_to_csv                                                           *)
(***************************************************************************)
I(i) == [py |-> "int", i |-> i]

\* str(v)
StrOf(v) ==
    CASE v.py = "str" -> v
      [] v.py = "None" -> S("None")
      [] OTHER -> [py |-> "str", repr |-> v]

\* bool(v)
Truthy(v) == v # None /\ v # S("") /\ v # L(<<>>)

\* dict.get(key, default)
Get(d, key, default) == IF key \in DOMAIN d THEN d[key] ELSE default

\* mutant: a writer that formats every value with str()
CsvCellStr(v) == StrOf(v)
\* the field csv.writer writes for a value: None is written as the empty
\* string, a string as itself, a number as its decimal text
CsvCell(v) == IF v = None THEN S("") ELSE v

\* the row list built for one stage
StageRow(idx, stage) ==
    << I(idx),
       stage["stageid"],
       stage["name"],
       stage["type"],
       IF Truthy(stage["onsuccess"]) THEN stage["onsuccess"] ELSE S(""),
       Get(stage, "expression", S("")),
       Get(stage, "ontrue", S("")),
       Get(stage, "onfalse", S("")),
       Get(stage, "calculation_stage", S("")),
       Get(stage, "exception_type", S("")),
       Get(stage, "exception_detail", S("")),
       Get(stage, "localized", S("")),
       Get(stage, "usecurrent", S("")),
       IF Truthy(Get(stage, "calculations", None))
       THEN StrOf(Get(stage, "calculations", S(""))) ELSE S("") >>

\* writer.writerow(row)
WriteRow(row) == [i \in DOMAIN row |-> CsvCell(row[i])]

SubsheetHeaders == <<S("Index"), S("SubsheetID")>>
headers ==
    << S("Index"), S("StageID"), S("Name"), S("Type"), S("OnSuccess"),
       S("Expression"), S("OnTrue"), S("OnFalse"),
       S("Calculation_Stage"),
       S("Exception_Type"), S("Exception_Detail"), S("Localized"), S("UseCurrent"),
       S("Multiple_Calculations") >>

SubsheetsFile(res) ==
    <<WriteRow(SubsheetHeaders)>>
    \o [i \in DOMAIN res.subsheet_ids |-> WriteRow(<<I(i), S(res.subsheet_ids[i])>>)]

StagesFile(res) ==
    <<WriteRow(headers)>>
    \o [i \in DOMAIN res.stages |-> WriteRow(StageRow(i, res.stages[i]))]

(***************************************************************************)
(* Documents                                                               *)
(***************************************************************************)
StageIds == <<"S1", "S2", "S3", "S4", "S5", "S6">>
StageNames == <<"N1", "N2", "N3", "N4", "N5", "N6">>

StageOpen(i, type, more, sc) ==
    Open("stage",
         <<Attr("stageid", StageIds[i]), Attr("name", StageNames[i]), Attr("type", type)>>
         \o more, sc)

Leaf(tag, text) == <<Open(tag, <<>>, FALSE), Text(text), Close(tag)>>

Calc(e, st) == Open("calculation", <<Attr("expression", e), Attr("stage", st)>>, TRUE)

Shapes ==
    { "note", "note_next", "decision", "decision_bare", "calc", "calc_bare",
      "exc", "exc_bare", "multi", "multi_bare", "selfclosed", "reordered",
      "subsheet_stage", "subsheet_ref", "subsheet_elem", "stagegroup",
      "unterminated", "decision_quoted", "note_attr" }

\* the tokens of the i-th element of a document
Fragment(shape, i) ==
    CASE shape = "note" ->
            <<StageOpen(i, "Note", <<>>, FALSE), Close("stage")>>
      [] shape = "note_next" ->
            <<StageOpen(i, "Note", <<>>, FALSE)>> \o Leaf("onsuccess", "S9")
            \o <<Close("stage")>>
      [] shape = "decision" ->
            <<StageOpen(i, "Decision", <<>>, FALSE),
              Open("decision", <<Attr("expression", "X&gt;1")>>, TRUE)>>
            \o Leaf("ontrue", "S7") \o Leaf("onfalse", "S8")
            \o <<Close("stage")>>
      [] shape = "decision_bare" ->
            <<StageOpen(i, "Decision", <<>>, FALSE), Close("stage")>>
      [] shape = "calc" ->
            <<StageOpen(i, "Calculation", <<>>, FALSE), Calc("A&amp;B", "D1")>>
            \o Leaf("onsuccess", "S9") \o <<Close("stage")>>
      [] shape = "calc_bare" ->
            <<StageOpen(i, "Calculation", <<>>, FALSE), Close("stage")>>
      [] shape = "exc" ->
            <<StageOpen(i, "Exception", <<>>, FALSE),
              Open("exception", <<Attr("type", "T1"), Attr("detail", "oops")>>, TRUE),
              Close("stage")>>
      [] shape = "exc_bare" ->
            <<StageOpen(i, "Exception", <<>>, FALSE),
              Open("exception", <<Attr("detail", "oops"), Attr("type", "T1")>>, TRUE),
              Close("stage")>>
      [] shape = "multi" ->
            <<StageOpen(i, "MultipleCalculation", <<>>, FALSE),
              Open("steps", <<>>, FALSE), Calc("1", "D1"), Calc("2", "D2"), Close("steps"),
              Close("stage")>>
      [] shape = "multi_bare" ->
            <<StageOpen(i, "MultipleCalculation", <<>>, FALSE),
              Open("steps", <<>>, TRUE), Close("stage")>>
      [] shape = "selfclosed" ->
            <<StageOpen(i, "Note", <<>>, TRUE)>>
      [] shape = "reordered" ->
            <<Open("stage", <<Attr("name", StageNames[i]), Attr("stageid", StageIds[i]),
                               Attr("type", "Note")>>, FALSE),
              Close("stage")>>
      [] shape = "subsheet_stage" ->
            <<StageOpen(i, "SubSheet", <<Attr("subsheetid", "P1")>>, FALSE), Close("stage")>>
      [] shape = "subsheet_ref" ->
            <<Open("stage", <<Attr("subsheetid", "P2"), Attr("name", StageNames[i])>>, FALSE),
              Close("stage")>>
      [] shape = "subsheet_elem" ->
            <<Open("subsheet", <<Attr("subsheetid", "P3")>>, TRUE)>>
      [] shape = "stagegroup" ->
            <<Open("stagegroup", <<Attr("subsheetid", "P4")>>, TRUE)>>
      [] shape = "decision_quoted" ->
            <<StageOpen(i, "Decision", <<>>, FALSE),
              Open("decision", <<Attr("expression", "[N]=&quot;a&quot;")>>, TRUE)>>
            \o Leaf("ontrue", "S7") \o Leaf("onfalse", "S8")
            \o <<Close("stage")>>
      [] shape = "note_attr" ->
            <<StageOpen(i, "Note", <<Attr("onsuccess", "S9")>>, FALSE), Close("stage")>>
      [] shape = "unterminated" ->
            <<StageOpen(i, "Note", <<>>, FALSE)>> \o Leaf("onsuccess", "S9")

RECURSIVE Document(_, _)
Document(shapes, i) ==
    IF i > Len(shapes) THEN <<>>
    ELSE Fragment(shapes[i], i) \o Document(shapes, i + 1)

Documents ==
    UNION {{Document(sh, 1) : sh \in [1..n -> Shapes]} : n \in 1..MaxElems}

(***************************************************************************)
(* Extract and export of one file                                          *)
(***************************************************************************)
Init ==
    /\ content \in Documents
    /\ pc = "start"
    /\ results = None
    /\ subsheetsCsv = <<>>
    /\ stagesCsv = <<>>
    /\ runs = 1
    /\ first_run = <<>>
    /\ ElementIdle
    /\ ProcessIdle
    /\ BatchIdle
    /\ ScriptIdle
    /\ HeadersIdle
    /\ CalendarIdle

\* results = extract_process_details(file_path)
Extract ==
    /\ pc = "start"
    /\ \E order \in Orders(SubsheetSet(Decode(content))) :
          results' = [subsheet_ids |-> order, stages |-> Stages(Decode(content))]
    /\ pc' = "extracted"
    /\ UNCHANGED <<content, subsheetsCsv, stagesCsv, runs, first_run,
                   besidesExtract>>

\* export_to_csv(results, output_prefix, folder_outputs)
Export ==
    /\ pc = "extracted"
    /\ subsheetsCsv' = SubsheetsFile(results)
    /\ stagesCsv' = StagesFile(results)
    /\ pc' = "exported"
    /\ UNCHANGED <<content, results, runs, first_run, besidesExtract>>

\* the script is started once more on the same document, with the same
\* output prefix and folder: a new interpreter, the files of the first run
\* still in place
Rerun ==
    /\ pc = "exported"
    /\ runs < MaxRuns
    /\ runs' = runs + 1
    /\ first_run' = IF runs = 1 THEN <<subsheetsCsv, stagesCsv>> ELSE first_run
    /\ results' = None
    /\ pc' = "start"
    /\ UNCHANGED <<content, subsheetsCsv, stagesCsv, besidesExtract>>

Next == Extract \/ Export \/ Rerun

Spec == Init /\ [][Next]_vars

(***************************************************************************)
(* Properties of the extractor and the exporter                            *)
(***************************************************************************)
\* a stage element carrying stageid, name and type attributes
CarriesIdentity(t) ==
    IsOpen(t, "stage") /\ HasAttr(t, "stageid") /\ HasAttr(t, "name") /\ HasAttr(t, "type")

StageElements(c) == SelectSeq(c, CarriesIdentity)

Describes(stage, t) ==
    /\ stage["stageid"] = S(AttrOf(t, "stageid"))
    /\ stage["name"] = S(AttrOf(t, "name"))
    /\ stage["type"] = S(AttrOf(t, "type"))

\* C1: for a document with N stage elements carrying stageid, name and type,
\* the returned 'stages' list has exactly N records and the i-th record
\* describes the i-th such element in document order.
C1_RecordPerStageElement ==
    pc # "start" =>
        LET elems == StageElements(Decode(content))
        IN  /\ Len(results.stages) = Len(elems)
            /\ \A i \in DOMAIN elems : Describes(results.stages[i], elems[i])

\* the record keys behind the optional columns of the stages CSV
OptionalKey ==
    [c \in 5..14 |->
        CASE c = 5 -> "onsuccess"
          [] c = 6 -> "expression"
          [] c = 7 -> "ontrue"
          [] c = 8 -> "onfalse"
          [] c = 9 -> "calculation_stage"
          [] c = 10 -> "exception_type"
          [] c = 11 -> "exception_detail"
          [] c = 12 -> "localized"
          [] c = 13 -> "usecurrent"
          [] c = 14 -> "calculations"]

\* the value of a column is missing from a stage record
Missing(stage, c) ==
    \/ OptionalKey[c] \notin DOMAIN stage
    \/ stage[OptionalKey[c]] = None
    \/ stage[OptionalKey[c]] = L(<<>>)

\* C2: whenever an optional value of a stage record is missing, the cell of
\* its row in the stages CSV is the empty string, never the text "None".
C2_MissingIsEmptyCell ==
    pc = "exported" =>
        \A i \in DOMAIN results.stages : \A c \in 5..14 :
            Missing(results.stages[i], c) => stagesCsv[i + 1][c] = S("")

\* a Decision record without expression, ontrue, onfalse and onsuccess was exported
C2_Witness ==
    /\ pc = "exported"
    /\ \E i \in DOMAIN results.stages :
          /\ results.stages[i]["type"] = S("Decision")
          /\ results.stages[i]["expression"] = None
          /\ results.stages[i]["ontrue"] = None
          /\ results.stages[i]["onsuccess"] = None
          /\ stagesCsv[i + 1][6] = S("")

KnownTypes == {S("Decision"), S("Calculation"), S("Exception"), S("MultipleCalculation")}
CommonFields == {"stageid", "name", "type", "onsuccess"}

\* C3: a stage of any other type yields a record holding only the common
\* fields, and the nine kind-specific columns of its CSV row are empty.
C3_UnknownKindCommonOnly ==
    /\ pc # "start" =>
          \A i \in DOMAIN results.stages :
              results.stages[i]["type"] \notin KnownTypes
                  => DOMAIN results.stages[i] = CommonFields
    /\ pc = "exported" =>
          \A i \in DOMAIN results.stages :
              results.stages[i]["type"] \notin KnownTypes
                  => \A c \in 6..14 : stagesCsv[i + 1][c] = S("")

\* a Note stage with an onsuccess pointer was extracted and exported
C3_Witness ==
    /\ pc = "exported"
    /\ \E i \in DOMAIN results.stages :
          /\ results.stages[i]["type"] = S("Note")
          /\ results.stages[i]["onsuccess"] = S("S9")
          /\ stagesCsv[i + 1][5] = S("S9")
          /\ stagesCsv[i + 1][14] = S("")

\* the distinct subsheetid values on the opening tags of any element
SubsheetValues(c) ==
    {c[i].attrs[a].v : <<i, a>> \in
        {<<m, n>> \in (DOMAIN c) \X (1..4) :
            /\ c[m].k = "open" /\ n \in DOMAIN c[m].attrs
            /\ c[m].attrs[n].n = "subsheetid" /\ c[m].attrs[n].v # ""}}


Range(f) == {f[i] : i \in DOMAIN f}
NoRepeats(f) == \A i, j \in DOMAIN f : i # j => f[i] # f[j]

\* C10 as stated: 'subsheet_ids' holds every distinct subsheetid value that
\* appears on any element of the document exactly once, elements that are
\* not stage elements included.
C10_EveryElement ==
    pc # "start" =>
        /\ Range(results.subsheet_ids) = SubsheetValues(Decode(content))
        /\ NoRepeats(results.subsheet_ids)

\* the value an escaped attribute value or text run of the file stands for
Unescaped(v) ==
    CASE v = "X&gt;1" -> "X>1"
      [] v = "A&amp;B" -> "A&B"
      [] v = "[N]=&quot;a&quot;" -> "[N]=\"a\""
      [] OTHER -> v

\* the text of the first <tag>text</tag> among the tokens i+1..j-1 of c
LeafText(c, i, j, tag) ==
    LET p == Least({q \in (i + 1)..(j - 3) :
                     IsBare(c[q], tag) /\ c[q + 1].k = "text" /\ IsClose(c[q + 2], tag)})
    IN  IF p = 0 THEN "" ELSE Unescaped(c[p + 1].v)

\* the Decision stage elements of a document: for each, what the claim
\* expects of its record (<<>> for a token that is not one)
DecisionStage(c, i) ==
    LET j == Least({q \in (i + 1)..Len(c) : c[q].tag = "stage"})
        d == IF j = 0 THEN 0
             ELSE Least({q \in (i + 1)..(j - 1) :
                           IsOpen(c[q], "decision") /\ HasAttr(c[q], "expression")})
    IN  IF /\ CarriesIdentity(c[i]) /\ ~c[i].sc /\ AttrOf(c[i], "type") = "Decision"
           /\ j # 0 /\ IsClose(c[j], "stage") /\ d # 0
           /\ LeafText(c, i, j, "ontrue") # "" /\ LeafText(c, i, j, "onfalse") # ""
        THEN << S(Unescaped(AttrOf(c[i], "stageid"))), S(Unescaped(AttrOf(c[i], "name"))),
                S("Decision"), S(Unescaped(AttrOf(c[d], "expression"))),
                S(LeafText(c, i, j, "ontrue")), S(LeafText(c, i, j, "onfalse")) >>
        ELSE <<>>

\* C14: every Decision stage with stageid I, name N, a nested decision tag
\* with expression E and nested ontrue T and onfalse F yields exactly one
\* record with these six values, and exactly one data row with them under
\* StageID, Name, Type, Expression, OnTrue and OnFalse.
C14_DecisionRecordAndRow ==
    pc = "exported" =>
        \A i \in DOMAIN content :
            LET want == DecisionStage(content, i)
                recs == {k \in DOMAIN results.stages : results.stages[k]["stageid"] = want[1]}
            IN  want # <<>> =>
                    /\ Cardinality(recs) = 1
                    /\ \A k \in recs :
                          /\ results.stages[k]["name"] = want[2]
                          /\ results.stages[k]["type"] = want[3]
                          /\ "expression" \in DOMAIN results.stages[k]
                          /\ results.stages[k]["expression"] = want[4]
                          /\ results.stages[k]["ontrue"] = want[5]
                          /\ results.stages[k]["onfalse"] = want[6]
                          /\ <<stagesCsv[k + 1][2], stagesCsv[k + 1][3], stagesCsv[k + 1][4],
                                stagesCsv[k + 1][6], stagesCsv[k + 1][7], stagesCsv[k + 1][8]>>
                                = want

\* a stage opening tag that is not closed: the next stage tag after it is
\* not its </stage>
Unterminated(c) ==
    \E i \in DOMAIN c :
        /\ IsOpen(c[i], "stage") /\ ~c[i].sc
        /\ LET nxt == Least({q \in (i + 1)..Len(c) : c[q].tag = "stage"})
           IN  nxt = 0 \/ ~IsClose(c[nxt], "stage")

\* C13: for a document with an unterminated stage element,
\* extract_process_details fails; it never returns a result.
C13_UnterminatedStageFails ==
    Unterminated(Decode(content)) => pc \notin {"extracted", "exported"}

\* C12: processing the same document twice with the same output prefix and
\* folder leaves byte-identical subsheets and stages CSV files: the second
\* run overwrites, and the rows of the subsheet file come in the same order.
C12_RerunSameFiles ==
    (runs = 2 /\ pc = "exported") => <<subsheetsCsv, stagesCsv>> = first_run

(***************************************************************************)
(* Element trees                                                           *)
(*                                                                         *)
(* An identifier is a sequence of characters.  An element of a parsed tree *)
(* has a namespace prefix, a tag, its attributes in document order, its    *)
(* text (empty for a missing .text), its children, its tail (the text      *)
(* between its end tag and the next tag), and uid, which stands for the    *)
(* rest of its content.                                                    *)
(***************************************************************************)
Node(ns, tag, attrs, text, kids) ==
    [ns |-> ns, tag |-> tag, attrs |-> attrs, text |-> text, kids |-> kids,
     tail |-> <<>>, uid |-> 0]
Kid(ns, tag, text) == Node(ns, tag, <<>>, text, <<>>)
\* the None that find returns
NoElem == Node("", "", <<>>, <<>>, <<>>)

\* element.iter() without the element itself: its descendants in document order
RECURSIVE Descendants(_)
RECURSIVE DescendantsOf(_, _)
DescendantsOf(kids, i) ==
    IF i > Len(kids) THEN <<>>
    ELSE <<kids[i]>> \o Descendants(kids[i]) \o DescendantsOf(kids, i + 1)
Descendants(element) == DescendantsOf(element.kids, 1)

IsTag(e, ns, tag) == e.ns = ns /\ e.tag = tag

\* element.findall('.//ns:tag')
FindAll(element, ns, tag) ==
    SelectSeq(Descendants(element), LAMBDA e : IsTag(e, ns, tag))

\* element.find('.//ns:tag'): the first such descendant, or None
Find(element, ns, tag) ==
    LET all == FindAll(element, ns, tag)
    IN  IF all = <<>> THEN NoElem ELSE all[1]

\* str(n) for the counters of the model
Digits == <<"0", "1", "2", "3", "4", "5", "6", "7", "8", "9">>
Str(n) == Digits[n + 1]

\* mutant: the file opened for appending
WriteAppend(files, path, chunks) ==
    IF path \in DOMAIN files
    THEN (path :> (files[path] \o chunks)) @@ files
    ELSE (path :> chunks) @@ files

\* with open(path, 'w') as f: f.write(chunk) for each chunk
Write(files, path, chunks) == (path :> chunks) @@ files

\* element_id.replace(' ', '_').replace('/', '_')
Sanitize(id) ==
    [i \in DOMAIN id |-> IF id[i] = " " \/ id[i] = "/" THEN "_" ELSE id[i]]

(***************************************************************************)
(* split_by_element                                                        *)
(***************************************************************************)
\* the namespaces dict of split_by_element, in its order
namespaces == <<"bpr", "bp", "bpm">>

\* the for loop over namespaces.keys(): the element_id it leaves
RECURSIVE NestedId(_, _)
NestedId(element, k) ==
    IF k > Len(namespaces) THEN [found |-> FALSE, id |-> <<>>]
    ELSE LET id_elem == Find(element, namespaces[k], "id")
             name_elem == Find(element, namespaces[k], "name")
         IN  IF id_elem # NoElem /\ id_elem.text # <<>>
             THEN [found |-> TRUE, id |-> id_elem.text]
             ELSE IF name_elem # NoElem /\ name_elem.text # <<>>
             THEN [found |-> TRUE, id |-> name_elem.text]
             ELSE NestedId(element, k + 1)

\* mutant: the name attribute looked up before the id attribute
ElementIdNameFirst(element, n) ==
    IF HasAttr(element, "name") THEN AttrOf(element, "name")
    ELSE IF HasAttr(element, "id") THEN AttrOf(element, "id")
    ELSE IF NestedId(element, 1).found THEN NestedId(element, 1).id
    ELSE <<"unknown_", Str(n)>>

\* element_id of an element when files_created = n
ElementId(element, n) ==
    IF HasAttr(element, "id") THEN AttrOf(element, "id")
    ELSE IF HasAttr(element, "name") THEN AttrOf(element, "name")
    ELSE IF NestedId(element, 1).found THEN NestedId(element, 1).id
    ELSE <<"unknown_", Str(n)>>

\* os.path.join("element_files", element_type, f"{...}.xml")
ElementPath(element, n) ==
    <<"element_files", element.tag, Sanitize(ElementId(element, n)) \o <<".xml">> >>

\* full_xml: the declaration and ET.tostring(element), which serializes the
\* element, its descendants and its tail
FullXml(element) == <<"<?xml version=\"1.0\" encoding=\"utf-8\"?>\n", element>>

Element(tag, attrs, kids) == Node("bpr", tag, attrs, <<>>, kids)

ElementShapes ==
    { Element("process", <<Attr("id", <<"a", " ", "b">>)>>, <<>>),
      Element("process", <<Attr("id", <<"a", "/", "b">>)>>, <<Kid("bpr", "id", <<"k", "1">>)>>),
      Element("object", <<Attr("id", <<"a", " ", "b">>)>>, <<>>),
      Element("process", <<Attr("name", <<"n", "\t", "m">>)>>, <<Kid("bpr", "id", <<"k", "1">>)>>),
      Element("process", <<Attr("name", <<"z">>), Attr("id", <<"x", "\\", "y">>)>>, <<>>),
      Element("process", <<Attr("id", <<>>), Attr("name", <<"z">>)>>, <<>>),
      Element("calendar", <<>>, <<Kid("bpr", "id", <<"k", "1">>)>>),
      Element("calendar", <<>>, <<Kid("bpr", "id", <<>>), Kid("bpr", "id", <<"k", "2">>)>>),
      Element("calendar", <<>>, <<Kid("bp", "id", <<"k", "3">>), Kid("bpr", "name", <<"k", "4">>)>>),
      Element("calendar", <<>>, <<Kid("bpr", "id", <<>>), Kid("bpm", "name", <<"k", "\n", "5">>)>>),
      Element("calendar", <<>>, <<Kid("", "id", <<"k", "6">>)>>),
      Element("calendar", <<>>, <<>>) }

\* the text after a child of <bpr:contents>: none, the line break and
\* indentation of a formatted document, or other text
Tails == {<<>>, <<"\n", " ">>, <<"t">>}

\* the children of <bpr:contents>, each with its own content and tail
ElementLists ==
    UNION {{[i \in 1..n |-> [sh[i] EXCEPT !.uid = i, !.tail = tl[i]]] :
                sh \in [1..n -> ElementShapes], tl \in [1..n -> Tails]}
            : n \in 1..MaxChildren}

\* the input files: a release with these children, a release without
\* <bpr:contents>, a file ET.parse rejects
InputFiles ==
    {[parses |-> TRUE, has_contents |-> TRUE, children |-> l] : l \in ElementLists}
    \cup {[parses |-> TRUE, has_contents |-> FALSE, children |-> <<>>],
          [parses |-> FALSE, has_contents |-> FALSE, children |-> <<>>]}

InitElement ==
    /\ input_file \in InputFiles
    /\ contents = <<>>
    /\ epc = "parse"
    /\ files_created = 0
    /\ element_id = <<>>
    /\ element_files = <<>>
    /\ ExtractIdle
    /\ ProcessIdle
    /\ BatchIdle
    /\ ScriptIdle
    /\ HeadersIdle
    /\ CalendarIdle

\* ET.parse raises ParseError: the except branch returns
ElementParseError ==
    /\ epc = "parse"
    /\ ~input_file.parses
    /\ epc' = "done"
    /\ UNCHANGED <<input_file, contents, files_created, element_id, element_files, besidesElement>>

\* contents is None: return
ElementNoContents ==
    /\ epc = "parse"
    /\ input_file.parses /\ ~input_file.has_contents
    /\ epc' = "done"
    /\ UNCHANGED <<input_file, contents, files_created, element_id, element_files, besidesElement>>

\* tree parsed, <bpr:contents> found, files_created = 0
ElementStart ==
    /\ epc = "parse"
    /\ input_file.parses /\ input_file.has_contents
    /\ contents' = input_file.children
    /\ epc' = "loop"
    /\ files_created' = 0
    /\ UNCHANGED <<input_file, element_id, element_files, besidesElement>>

\* one iteration of "for element in contents"
ElementStep ==
    /\ epc = "loop"
    /\ files_created < Len(contents)
    /\ LET element == contents[files_created + 1]
       IN  /\ element_id' = ElementId(element, files_created)
           /\ element_files' = Write(element_files, ElementPath(element, files_created),
                                     <<FullXml(element)>>)
    /\ files_created' = files_created + 1
    /\ UNCHANGED <<input_file, contents, epc, besidesElement>>

\* the loop is exhausted
ElementEnd ==
    /\ epc = "loop"
    /\ files_created = Len(contents)
    /\ epc' = "done"
    /\ UNCHANGED <<input_file, contents, files_created, element_id, element_files, besidesElement>>

(***************************************************************************)
(* split_by_process                                                        *)
(***************************************************************************)
\* the text of an element: its opening tag, text, children, closing tag
RawOpen(e) == [k |-> "open", ns |-> e.ns, tag |-> e.tag, attrs |-> e.attrs,
               text |-> <<>>, uid |-> e.uid]
RawText(e) == [k |-> "text", ns |-> "", tag |-> "", attrs |-> <<>>,
               text |-> e.text, uid |-> 0]
RawClose(e) == [k |-> "close", ns |-> e.ns, tag |-> e.tag, attrs |-> <<>>,
                text |-> <<>>, uid |-> 0]

RECURSIVE RawTokens(_)
RECURSIVE RawTokensOf(_, _)
RawTokensOf(kids, i) ==
    IF i > Len(kids) THEN <<>>
    ELSE RawTokens(kids[i]) \o RawTokensOf(kids, i + 1)
RawTokens(e) ==
    <<RawOpen(e)>> \o (IF e.text # <<>> THEN <<RawText(e)>> ELSE <<>>)
    \o RawTokensOf(e.kids, 1) \o <<RawClose(e)>>

\* attribute names the text id=" ends
IdSuffixed == {"id", "preferredid"}
IdAttrs(t) == {i \in DOMAIN t.attrs : t.attrs[i].n \in IdSuffixed /\ t.attrs[i].v # <<>>}

\* <(?:bp:)?process[^>]*id="([^"]+)"
ProcessHead(t) == t.k = "open" /\ t.tag = "process" /\ t.ns \in {"", "bp"} /\ IdAttrs(t) # {}
\* </(?:bp:)?process>
ProcessClose(t) == t.k = "close" /\ t.tag = "process" /\ t.ns \in {"", "bp"}
\* group 1: the greedy [^>]* leaves the last id=" of the tag
ProcessGroup1(t) ==
    t.attrs[CHOOSE m \in IdAttrs(t) : \A o \in IdAttrs(t) : o <= m].v

\* re.finditer(pattern, content, re.DOTALL) from position `from` on
RECURSIVE ProcessMatches(_, _)
ProcessMatches(c, from) ==
    LET i == Least({q \in (from)..Len(c) : ProcessHead(c[q])})
        j == IF i = 0 THEN 0 ELSE Least({q \in (i + 1)..Len(c) : ProcessClose(c[q])})
    IN  IF j = 0 THEN <<>>
        ELSE <<[process_id |-> ProcessGroup1(c[i]), process_content |-> SubSeq(c, i, j)]>>
             \o ProcessMatches(c, j + 1)

\* bool(element): an Element without children is false, as None is
ElemTruthy(e) == e # NoElem /\ Len(e.kids) > 0
\* a or b
Or(a, b) == IF ElemTruthy(a) THEN a ELSE b

\* process_id of a process element when files_created = n
ProcessId(process, n) ==
    IF HasAttr(process, "id") THEN AttrOf(process, "id")
    ELSE IF HasAttr(process, "name") THEN AttrOf(process, "name")
    ELSE LET id_elem == Or(Find(process, "", "id"), Find(process, "bp", "id"))
             name_elem == Or(Find(process, "", "name"), Find(process, "bp", "name"))
         IN  IF id_elem # NoElem /\ id_elem.text # <<>> THEN id_elem.text
             ELSE IF name_elem # NoElem /\ name_elem.text # <<>> THEN name_elem.text
             ELSE <<"unknown_process_", Str(n)>>

\* os.path.join(output_dir, f"process_{...}.xml")
ProcessPath(id) ==
    <<"process_files", <<"process_">> \o Sanitize(id) \o <<".xml">> >>

\* prettify_xml(process): minidom's declaration and the element
PrettifyXml(process) == <<"<?xml version=\"1.0\" ?>\n", process>>

\* the two writes of the regex branch
RegexChunks(process_content) ==
    <<"<?xml version=\"1.0\" encoding=\"utf-8\"?>\n", process_content>>

Process(ns, attrs, kids) == Node(ns, "process", attrs, <<>>, kids)

ProcessShapes ==
    { Process("", <<Attr("id", <<"a", " ", "b">>), Attr("name", <<"n">>)>>, <<>>),
      Process("", <<Attr("id", <<"a", "/", "b">>)>>, <<Kid("", "id", <<"k", "1">>)>>),
      Process("", <<Attr("name", <<"n", "\t", "m">>)>>, <<Kid("", "name", <<"k", "2">>)>>),
      Process("", <<Attr("id", <<"c">>), Attr("preferredid", <<"p">>)>>, <<>>),
      Process("bp", <<Attr("id", <<"d", "\\", "e">>)>>, <<>>),
      Process("", <<>>, <<Kid("", "id", <<"k", "1">>)>>),
      Process("bp", <<>>, <<Kid("bp", "id", <<"k", "3">>), Kid("bp", "name", <<"k", "4">>)>>),
      Process("", <<>>, <<Node("", "id", <<>>, <<"k", "5">>, <<Kid("", "b", <<>>)>>)>>),
      Process("", <<>>, <<Kid("", "name", <<"k", "6">>)>>),
      Process("", <<>>, <<Kid("", "id", <<>>), Kid("bp", "name", <<"k", "7">>)>>),
      Process("", <<>>, <<>>) }

ProcessLists ==
    UNION {{[i \in 1..n |-> [sh[i] EXCEPT !.uid = i]] : sh \in [1..n -> ProcessShapes]}
            : n \in 1..MaxProcs}

\* the files given to split_by_process: the top-level elements of the text
\* (the processes themselves, or one root holding them), text before the
\* first element or not, and a file that cannot be read
TempFiles ==
    {[readable |-> TRUE, leading_text |-> lt, tops |-> l] :
        lt \in BOOLEAN, l \in ProcessLists}
    \cup {[readable |-> TRUE, leading_text |-> FALSE,
           tops |-> <<Node("", "root", <<>>, <<>>, l)>>] : l \in ProcessLists}
    \cup {[readable |-> FALSE, leading_text |-> FALSE, tops |-> <<>>]}

\* content after "if not content.strip().startswith('<')": wrapped in <root>
Wrapped(file) ==
    IF file.leading_text
    THEN <<Node("", "root", <<>>, <<"t">>, file.tops)>>
    ELSE file.tops

\* ET.fromstring(content) succeeds: one top-level element
Parses(file) == Len(Wrapped(file)) = 1

\* root.findall('.//process'), or root.findall('.//bp:process') if that is empty
FoundProcesses(root) ==
    IF FindAll(root, "", "process") # <<>>
    THEN FindAll(root, "", "process")
    ELSE FindAll(root, "bp", "process")

\* the text the regex scans
RawContent(file) == RawTokensOf(Wrapped(file), 1)

InitProcess ==
    /\ temp_file \in TempFiles
    /\ processes = <<>>
    /\ mode = ""
    /\ ppc = "read"
    /\ files_written = 0
    /\ process_id = <<>>
    /\ process_files = <<>>
    /\ ExtractIdle
    /\ ElementIdle
    /\ BatchIdle
    /\ ScriptIdle
    /\ HeadersIdle
    /\ CalendarIdle

\* open(input_file) raises: return
ProcessReadError ==
    /\ ppc = "read"
    /\ ~temp_file.readable
    /\ ppc' = "done"
    /\ UNCHANGED <<temp_file, processes, mode, files_written, process_id, process_files,
                   besidesProcess>>

\* ET.fromstring succeeds
ProcessParse ==
    /\ ppc = "read"
    /\ temp_file.readable /\ Parses(temp_file)
    /\ processes' = FoundProcesses(Wrapped(temp_file)[1])
    /\ mode' = "tree"
    /\ ppc' = "loop"
    /\ files_written' = 0
    /\ UNCHANGED <<temp_file, process_id, process_files, besidesProcess>>

\* ET.fromstring raises ParseError: the regex scan
ProcessParseError ==
    /\ ppc = "read"
    /\ temp_file.readable /\ ~Parses(temp_file)
    /\ processes' = ProcessMatches(RawContent(temp_file), 1)
    /\ mode' = "regex"
    /\ ppc' = "loop"
    /\ files_written' = 0
    /\ UNCHANGED <<temp_file, process_id, process_files, besidesProcess>>

\* one iteration of "for process in processes"
ProcessStepTree ==
    /\ ppc = "loop" /\ mode = "tree"
    /\ files_written < Len(processes)
    /\ LET process == processes[files_written + 1]
       IN  /\ process_id' = ProcessId(process, files_written)
           /\ process_files' = Write(process_files,
                                     ProcessPath(ProcessId(process, files_written)),
                                     <<PrettifyXml(process)>>)
    /\ files_written' = files_written + 1
    /\ UNCHANGED <<temp_file, processes, mode, ppc, besidesProcess>>

\* one iteration of "for match in process_matches"
ProcessStepRegex ==
    /\ ppc = "loop" /\ mode = "regex"
    /\ files_written < Len(processes)
    /\ LET match == processes[files_written + 1]
       IN  /\ process_id' = match.process_id
           /\ process_files' = Write(process_files, ProcessPath(match.process_id),
                                     RegexChunks(match.process_content))
    /\ files_written' = files_written + 1
    /\ UNCHANGED <<temp_file, processes, mode, ppc, besidesProcess>>

\* either loop is exhausted
ProcessEnd ==
    /\ ppc = "loop"
    /\ files_written = Len(processes)
    /\ ppc' = "done"
    /\ UNCHANGED <<temp_file, processes, mode, files_written, process_id, process_files,
                   besidesProcess>>

NextElement ==
    ElementParseError \/ ElementNoContents \/ ElementStart \/ ElementStep \/ ElementEnd

NextProcess ==
    \/ ProcessReadError \/ ProcessParse \/ ProcessParseError
    \/ ProcessStepTree \/ ProcessStepRegex \/ ProcessEnd

\* a run of either splitter
InitSplit == InitElement \/ InitProcess
NextSplit == NextElement \/ NextProcess
SpecSplit == InitSplit /\ [][NextSplit]_vars

(***************************************************************************)
(* Properties of the splitters                                             *)
(***************************************************************************)
\* the path and the content the i-th element of a call resolves to
ElementWrite(i) ==
    [path |-> ElementPath(contents[i], i - 1), chunks |-> <<FullXml(contents[i])>>]

ProcessWrite(i) ==
    IF mode = "tree"
    THEN [path |-> ProcessPath(ProcessId(processes[i], i - 1)),
          chunks |-> <<PrettifyXml(processes[i])>>]
    ELSE [path |-> ProcessPath(processes[i].process_id),
          chunks |-> RegexChunks(processes[i].process_content)]

ElementWrites == [i \in DOMAIN contents |-> ElementWrite(i)]
ProcessWrites == [i \in DOMAIN processes |-> ProcessWrite(i)]

\* writes i < j of one call go to one path, and no later write does
Collide(W, i, j) ==
    /\ i < j /\ W[i].path = W[j].path
    /\ \A k \in (j + 1)..Len(W) : W[k].path # W[j].path

\* C4: when two elements processed in one call resolve to the same output
\* path, after the call the file at that path holds the content of the later
\* element only, in split_by_element and on both paths of split_by_process.
C4_LaterWriteReplaces ==
    /\ epc = "done" =>
          \A i, j \in DOMAIN contents :
              Collide(ElementWrites, i, j)
                  => /\ ElementWrite(j).path \in DOMAIN element_files
                     /\ element_files[ElementWrite(j).path] = ElementWrite(j).chunks
    /\ ppc = "done" =>
          \A i, j \in DOMAIN processes :
              Collide(ProcessWrites, i, j)
                  => /\ ProcessWrite(j).path \in DOMAIN process_files
                     /\ process_files[ProcessWrite(j).path] = ProcessWrite(j).chunks

\* split_by_element has ended after two elements with the identifiers "a b"
\* and "a/b" went to element_files/process/a_b.xml
C4_Witness ==
    /\ epc = "done"
    /\ \E i, j \in DOMAIN contents :
          /\ Collide(ElementWrites, i, j)
          /\ ElementId(contents[i], i - 1) # ElementId(contents[j], j - 1)
          /\ DOMAIN element_files = {ElementWrite(j).path}

\* the non-empty texts of the nested ns:tag elements of e, all of them or
\* the first of each namespace
NestedTexts(e, nss, tag) ==
    {d.text : d \in {x \in Range(Descendants(e)) : x.ns \in nss /\ x.tag = tag}} \ {<<>>}
FirstTexts(e, nss, tag) ==
    {Find(e, ns, tag).text : ns \in nss} \ {<<>>}

Registered == Range(namespaces)

\* the element split_by_element has just processed, and the counter it saw
LastElement == contents[files_created]

\* element_id follows the precedence over the candidate texts cands
Precedence(e, n, id, cands) ==
    IF HasAttr(e, "id") THEN id = AttrOf(e, "id")
    ELSE IF HasAttr(e, "name") THEN id = AttrOf(e, "name")
    ELSE IF cands # {} THEN id \in cands
    ELSE id = <<"unknown_", Str(n)>>

\* C5 as stated: the id attribute, otherwise the name attribute, otherwise
\* the non-empty text of a nested id or name element of a registered
\* namespace, and unknown_<n> only when none of these exists.
C5_AnyNestedText ==
    (epc \in {"loop", "done"} /\ files_created > 0) =>
        Precedence(LastElement, files_created - 1, element_id,
                   NestedTexts(LastElement, Registered, "id")
                   \cup NestedTexts(LastElement, Registered, "name"))

\* C5 amended: the nested lookup takes, per registered namespace, only the
\* first nested id element and the first nested name element; unknown_<n> is
\* used when none of those has text, n being the number of elements
\* processed before.
C5_FirstNestedText ==
    (epc \in {"loop", "done"} /\ files_created > 0) =>
        Precedence(LastElement, files_created - 1, element_id,
                   FirstTexts(LastElement, Registered, "id")
                   \cup FirstTexts(LastElement, Registered, "name"))

\* the second element had neither attribute nor a first nested id or name
\* with text, and got unknown_1
C5_Witness ==
    /\ epc = "loop" /\ files_created = 2
    /\ HasAttr(contents[1], "id")
    /\ ~HasAttr(LastElement, "id") /\ ~HasAttr(LastElement, "name")
    /\ LastElement.kids # <<>>
    /\ element_id = <<"unknown_", "1">>

\* the process split_by_process has just processed on the tree path
LastProcess == processes[files_written]

\* C6: on the tree path, a process with neither an id nor a name attribute
\* is named after the non-empty text of its nested id child (plain or bp),
\* failing that of its nested name child, and unknown_process_<n> only when
\* no such child with text exists.
C6_NestedChildNamesProcess ==
    (mode = "tree" /\ files_written > 0
        /\ ~HasAttr(LastProcess, "id") /\ ~HasAttr(LastProcess, "name")) =>
        LET ids == NestedTexts(LastProcess, {"", "bp"}, "id")
            names == NestedTexts(LastProcess, {"", "bp"}, "name")
        IN  IF ids # {} THEN process_id \in ids
            ELSE IF names # {} THEN process_id \in names
            ELSE process_id = <<"unknown_process_", Str(files_written - 1)>>

Whitespace == {" ", "\t", "\n"}
Separators == {"/", "\\"}

\* C7: no file name built by the splitters contains a whitespace character
\* or a path separator.
C7_FileNamesSanitized ==
    \A path \in DOMAIN element_files \cup DOMAIN process_files :
        LET filename == path[Len(path)]
        IN  \A i \in DOMAIN filename : filename[i] \notin Whitespace \cup Separators

\* the process elements of the text given to split_by_process
InputProcesses == SelectSeq(Descendants(Node("", "", <<>>, <<>>, Wrapped(temp_file))),
                            LAMBDA e : e.tag = "process")

\* C8: on the regex path every process element of the input has its raw span,
\* preceded by a declaration, in process_<sanitized id>.xml (or a later
\* process element took that path).
C8_EveryProcessWritten ==
    (mode = "regex" /\ ppc = "done") =>
        \A i \in DOMAIN InputProcesses :
            LET e == InputProcesses[i]
            IN  \/ /\ HasAttr(e, "id")
                   /\ ProcessPath(AttrOf(e, "id")) \in DOMAIN process_files
                   /\ process_files[ProcessPath(AttrOf(e, "id"))] = RegexChunks(RawTokens(e))
                \/ /\ HasAttr(e, "id")
                   /\ \E j \in DOMAIN InputProcesses :
                         /\ j > i /\ HasAttr(InputProcesses[j], "id")
                         /\ ProcessPath(AttrOf(InputProcesses[j], "id"))
                                = ProcessPath(AttrOf(e, "id"))
                \/ /\ ~HasAttr(e, "id")
                   /\ \E path \in DOMAIN process_files :
                         process_files[path] = RegexChunks(RawTokens(e))

\* the serialization of exactly one element with all its descendants
Serialized(e) == [e EXCEPT !.tail = <<>>]

\* C11: when the children of bpr:contents resolve to pairwise distinct paths,
\* after the call the files correspond one-to-one to the children, and each
\* file holds an XML declaration followed by the serialization of exactly
\* that child with all its descendants.
C11_FilePerChild ==
    (epc = "done" /\ input_file.parses /\ input_file.has_contents
        /\ \A i, j \in DOMAIN contents :
              i # j => ElementWrite(i).path # ElementWrite(j).path) =>
        /\ Cardinality(DOMAIN element_files) = Len(contents)
        /\ \A i \in DOMAIN contents :
              /\ ElementWrite(i).path \in DOMAIN element_files
              /\ element_files[ElementWrite(i).path]
                    = <<<<"<?xml version=\"1.0\" encoding=\"utf-8\"?>\n",
                          Serialized(contents[i])>>>>

\* C18: for a well-formed input split_by_process writes one file for every
\* process element of the tree, the root included; a single top-level
\* process element gives exactly one file.
C18_RootProcessWritten ==
    (mode = "tree" /\ ppc = "done") => files_written = Len(InputProcesses)

(***************************************************************************)
(* Batch mode: the loop of __main__ in extract_details.py, and             *)
(* process_calendar_folder / process_schedule_folder                       *)
(*                                                                         *)
(* An entry of the listing has a name, whether it ends in ".xml", and the  *)
(* fault processing it runs into: "read" (open raises OSError),            *)
(* "ParseError" (ET.parse raises), "write_subsheets" / "write_stages"      *)
(* (export_to_csv cannot open that CSV).                                   *)
(***************************************************************************)
FolderTools == {"calendar", "schedule"}

\* what can go wrong with one file under each tool
Faults(t) ==
    IF t = "extract" THEN {"none", "read", "write_subsheets", "write_stages"}
    ELSE {"none", "read", "ParseError"}

\* the exception a fault raises
Raised(fault) == IF fault = "ParseError" THEN "ParseError" ELSE "OSError"

\* mutant: only the parse error handled
CatchesParseErrorOnly(t, exc) == exc = "ParseError"
\* "except Exception" of the loop in __main__; "except ET.ParseError" and
\* "except Exception" of get_calendar_info and get_schedule_info
Catches(t, exc) == exc \in {"ParseError", "OSError"}

\* glob('*.xml') lists XML files only; os.listdir lists every entry
Entries(t) ==
    {[is_xml |-> x, fault |-> f] :
        x \in (IF t = "extract" THEN {TRUE} ELSE BOOLEAN), f \in Faults(t)}
    \ {[is_xml |-> FALSE, fault |-> f] : f \in {"read", "ParseError"}}

Listings(t) ==
    UNION {{[i \in 1..n |-> [name |-> Str(i), is_xml |-> l[i].is_xml, fault |-> l[i].fault]] :
                l \in [1..n -> Entries(t)]} : n \in 0..MaxFiles}

\* the CSV files export_to_csv has written when it stops at a fault
CsvWritten(fault) ==
    CASE fault = "none" -> {"subsheets", "stages"}
      [] fault = "write_stages" -> {"subsheets"}
      [] OTHER -> {}

\* mutant: the rows written without writeheader()
SummaryRowsNoHeader(infos) == infos
\* the summary: the header and one row per collected info
SummaryRows(infos) == <<"file_name">> \o infos

InitBatch ==
    /\ tool \in {"extract"} \cup FolderTools
    /\ folder_exists \in (IF tool = "extract" THEN {TRUE} ELSE BOOLEAN)
    /\ xml_files \in (IF folder_exists THEN Listings(tool) ELSE {<<>>})
    /\ bpc = "loop"
    /\ next_file = 1
    /\ attempted = <<>>
    /\ details_csv = <<>>
    /\ all_info = <<>>
    /\ csv_writable \in BOOLEAN
    /\ output_csv = PreviousCsv
    /\ ExtractIdle
    /\ ElementIdle
    /\ ProcessIdle
    /\ ScriptIdle
    /\ HeadersIdle
    /\ CalendarIdle

\* one iteration of "for file_path in xml_files" of __main__
ExtractBatchStep ==
    /\ bpc = "loop" /\ tool = "extract"
    /\ next_file <= Len(xml_files)
    /\ LET f == xml_files[next_file]
       IN  /\ attempted' = Append(attempted, f.name)
           /\ details_csv' = (f.name :> CsvWritten(f.fault)) @@ details_csv
           /\ IF f.fault = "none" \/ Catches(tool, Raised(f.fault))
              THEN next_file' = next_file + 1 /\ bpc' = bpc
              ELSE next_file' = next_file /\ bpc' = "raised"
    /\ UNCHANGED <<tool, folder_exists, xml_files, all_info, csv_writable, output_csv,
                   besidesBatch>>

\* the loop of __main__ is exhausted: exit()
ExtractBatchEnd ==
    /\ bpc = "loop" /\ tool = "extract"
    /\ next_file > Len(xml_files)
    /\ bpc' = "done"
    /\ UNCHANGED <<tool, folder_exists, xml_files, next_file, attempted, details_csv, all_info,
                   csv_writable, output_csv, besidesBatch>>

\* "if not os.path.exists(folder_path)": the function prints and returns
FolderMissing ==
    /\ bpc = "loop" /\ tool \in FolderTools /\ ~folder_exists
    /\ bpc' = "done"
    /\ UNCHANGED <<tool, folder_exists, xml_files, next_file, attempted, details_csv,
                   all_info, csv_writable, output_csv, besidesBatch>>

\* one iteration of "for filename in os.listdir(folder_path)" on an XML file
FolderStep ==
    /\ bpc = "loop" /\ tool \in FolderTools /\ folder_exists
    /\ next_file <= Len(xml_files)
    /\ xml_files[next_file].is_xml
    /\ LET f == xml_files[next_file]
       IN  /\ attempted' = Append(attempted, f.name)
           /\ all_info' = IF f.fault = "none" THEN Append(all_info, f.name) ELSE all_info
           /\ IF f.fault = "none" \/ Catches(tool, Raised(f.fault))
              THEN next_file' = next_file + 1 /\ bpc' = bpc
              ELSE next_file' = next_file /\ bpc' = "raised"
    /\ UNCHANGED <<tool, folder_exists, xml_files, details_csv, csv_writable, output_csv,
                   besidesBatch>>

\* an entry that does not end in ".xml"
FolderSkip ==
    /\ bpc = "loop" /\ tool \in FolderTools /\ folder_exists
    /\ next_file <= Len(xml_files)
    /\ ~xml_files[next_file].is_xml
    /\ next_file' = next_file + 1
    /\ UNCHANGED <<tool, folder_exists, xml_files, bpc, attempted, details_csv, all_info,
                   csv_writable, output_csv, besidesBatch>>

\* after the loop: "if all_calendars:" writes the summary, else prints
FolderWrite ==
    /\ bpc = "loop" /\ tool \in FolderTools /\ folder_exists
    /\ next_file > Len(xml_files)
    /\ output_csv' = IF all_info # <<>> /\ csv_writable
                     THEN SummaryRows(all_info) ELSE output_csv
    /\ bpc' = "done"
    /\ UNCHANGED <<tool, folder_exists, xml_files, next_file, attempted, details_csv, all_info,
                   csv_writable, besidesBatch>>

NextBatch ==
    \/ ExtractBatchStep \/ ExtractBatchEnd
    \/ FolderMissing \/ FolderStep \/ FolderSkip \/ FolderWrite

SpecBatch == InitBatch /\ [][NextBatch]_vars

(***************************************************************************)
(* Properties of batch mode                                                *)
(***************************************************************************)
XmlNames == [i \in DOMAIN SelectSeq(xml_files, LAMBDA f : f.is_xml) |->
                SelectSeq(xml_files, LAMBDA f : f.is_xml)[i].name]

ParsedNames ==
    [i \in DOMAIN SelectSeq(xml_files, LAMBDA f : f.is_xml /\ f.fault = "none") |->
        SelectSeq(xml_files, LAMBDA f : f.is_xml /\ f.fault = "none")[i].name]

\* C21 as stated: the output CSV is left untouched when the input folder
\* does not exist or no XML file parses; when at least one parses it is
\* rewritten with a header and one row per parsed file, in listing order.
C21_CsvRewrittenIfAnyParses ==
    (bpc = "done" /\ tool \in FolderTools) =>
        IF ~folder_exists \/ ParsedNames = <<>>
        THEN output_csv = PreviousCsv
        ELSE output_csv = <<"file_name">> \o ParsedNames

\* C21 amended: the same, the CSV being rewritten only if it can be opened
\* for writing; if it cannot, it is left untouched although a file parsed.
C21_CsvRewrittenIfWritable ==
    (bpc = "done" /\ tool \in FolderTools) =>
        IF ~folder_exists \/ ParsedNames = <<>> \/ ~csv_writable
        THEN output_csv = PreviousCsv
        ELSE output_csv = <<"file_name">> \o ParsedNames

\* a schedule folder was processed in which a file that does not parse came
\* before two that do: the summary has their two rows after the header
C21_Witness ==
    /\ bpc = "done" /\ tool = "schedule" /\ folder_exists /\ csv_writable
    /\ Len(xml_files) = 3
    /\ xml_files[1].is_xml /\ xml_files[1].fault = "ParseError"
    /\ output_csv = <<"file_name", "2", "3">>

(***************************************************************************)
(* The scripts: find_xml_file and __main__ of src/extract_details.py and   *)
(* src/scripts/extract_details.py                                          *)
(*                                                                         *)
(* A file name is <<stem, extension>>.  fs tells whether the target is in  *)
(* the current directory, and gives process_files ("outer") and            *)
(* process_files/process_files ("inner"): whether the folder exists and    *)
(* what os.listdir returns for it.                                         *)
(***************************************************************************)
target_file == <<"process_531accd6", ".xml">>
FileNames == {target_file, <<"other", ".xml">>, <<"notes", ".txt">>}

Folders ==
    {[exists |-> FALSE, names |-> <<>>]}
    \cup UNION {{[exists |-> TRUE, names |-> l] : l \in {o \in [1..n -> FileNames] : NoRepeats(o)}}
                  : n \in 0..MaxEntries}

FileSystems ==
    {f \in [cwd : BOOLEAN, outer : Folders, inner : Folders] :
        f.inner.exists => f.outer.exists}

\* os.path.join(directory, name)
Path(dir, name) == [py |-> "path", dir |-> dir, name |-> name]

\* file.endswith('.xml')
EndsWithXml(name) == name[Len(name)] = ".xml"

\* the folder find_xml_file searches: __main__ of src/extract_details.py
\* passes folder_inputs as directory, so process_dir is
\* process_files/process_files; the older script searches ./process_files
ProcessDir(v) == IF v = "src" THEN "process_files/process_files" ELSE "./process_files"
ProcessDirOf(v, f) == IF v = "src" THEN f.inner ELSE f.outer

\* find_xml_file(file_name, ...)
FindXmlFile(v, file_name, f) ==
    LET dir == ProcessDirOf(v, f)
        hits == {i \in DOMAIN dir.names :
                    dir.names[i] = file_name \/ EndsWithXml(dir.names[i])}
    IN  IF v = "scripts" /\ f.cwd THEN Path("", file_name)
        ELSE IF dir.exists /\ file_name \in Range(dir.names)
        THEN Path(ProcessDir(v), file_name)
        ELSE IF dir.exists /\ hits # {}
        THEN Path(ProcessDir(v), dir.names[Least(hits)])
        ELSE None

\* glob.glob(os.path.join('process_files', '*.xml'))
Glob(f) == SelectSeq(f.outer.names, EndsWithXml)

InitScript ==
    /\ variant \in {"src", "scripts"}
    /\ fs \in FileSystems
    /\ file_path = None
    /\ spc = "find"
    /\ processed = {}
    /\ ExtractIdle
    /\ ElementIdle
    /\ ProcessIdle
    /\ BatchIdle
    /\ HeadersIdle
    /\ CalendarIdle

\* file_path = find_xml_file(target_file, ...)
ScriptFind ==
    /\ spc = "find"
    /\ file_path' = FindXmlFile(variant, target_file, fs)
    /\ spc' = IF FindXmlFile(variant, target_file, fs) = None THEN "missing" ELSE "located"
    /\ UNCHANGED <<variant, fs, processed, besidesScript>>

\* src/extract_details.py, "if not file_path:" not taken: the script ends
SrcLocated ==
    /\ spc = "located" /\ variant = "src"
    /\ spc' = "done"
    /\ UNCHANGED <<variant, fs, file_path, processed, besidesScript>>

\* src/extract_details.py, "if not file_path:" taken: every XML file of
\* process_files is processed in a try block, then exit()
SrcMissing ==
    /\ spc = "missing" /\ variant = "src"
    /\ IF fs.outer.exists /\ Glob(fs) # <<>>
       THEN /\ processed' = {Path("process_files", n) : n \in Range(Glob(fs))}
            /\ file_path' = Path("process_files", Glob(fs)[Len(Glob(fs))])
       ELSE UNCHANGED <<processed, file_path>>
    /\ spc' = "done"
    /\ UNCHANGED <<variant, fs, besidesScript>>

\* src/scripts/extract_details.py: the file found is extracted and exported
ScriptsLocated ==
    /\ spc = "located" /\ variant = "scripts"
    /\ processed' = {file_path}
    /\ spc' = "done"
    /\ UNCHANGED <<variant, fs, file_path, besidesScript>>

\* src/scripts/extract_details.py: the user picks a listed file, which is
\* extracted and exported, or the script exits
ScriptsMissing ==
    /\ spc = "missing" /\ variant = "scripts"
    /\ \E choice \in 0..Len(Glob(fs)) :
          IF fs.outer.exists /\ choice # 0
          THEN /\ file_path' = Path("process_files", Glob(fs)[choice])
               /\ processed' = {Path("process_files", Glob(fs)[choice])}
          ELSE UNCHANGED <<processed, file_path>>
    /\ spc' = "done"
    /\ UNCHANGED <<variant, fs, besidesScript>>

NextScript == ScriptFind \/ SrcLocated \/ SrcMissing \/ ScriptsLocated \/ ScriptsMissing

SpecScript == InitScript /\ [][NextScript]_vars

(***************************************************************************)
(* Properties of the scripts                                               *)
(***************************************************************************)
\* a file named file_name exists where find_xml_file looks
NamedFileExists(v, file_name, f) ==
    \/ v = "scripts" /\ f.cwd
    \/ ProcessDirOf(v, f).exists /\ file_name \in Range(ProcessDirOf(v, f).names)

\* C15: every non-None result of find_xml_file is the path of an existing
\* file whose base name is file_name, and the result is None whenever no
\* file of that name exists in the searched locations.
C15_NamedFileOrNone ==
    spc \in {"located", "missing"} =>
        /\ file_path # None =>
              /\ file_path.name = target_file
              /\ NamedFileExists(variant, target_file, fs)
        /\ ~NamedFileExists(variant, target_file, fs) => file_path = None

\* C20: every run of src/extract_details.py in which find_xml_file located
\* the target ends with extraction and export applied to that file.
C20_LocatedFileProcessed ==
    (variant = "src" /\ spc = "done" /\ file_path # None) => file_path \in processed

(***************************************************************************)
(* remove_xml_headers                                                      *)
(*                                                                         *)
(* A line of the release file is known by whether it contains one of the   *)
(* start markers, whether it contains one of the end markers, and whether  *)
(* it begins with blanks.                                                  *)
(***************************************************************************)
Lines == [start : BOOLEAN, end : BOOLEAN, indent : BOOLEAN]

ReleaseFiles == UNION {[1..n -> Lines] : n \in 0..MaxLines}

\* line.lstrip()
Lstrip(line) == [line EXCEPT !.indent = FALSE]

\* output_lines after the loop has gone through lines i.. with these flags
RECURSIVE OutputLines(_, _, _, _)
OutputLines(ls, i, content_started, content_ended) ==
    IF i > Len(ls) THEN <<>>
    ELSE IF ~content_started
    THEN IF ls[i].start
         THEN OutputLines(ls, i + 1, FALSE, content_ended)
         ELSE <<Lstrip(ls[i])>> \o OutputLines(ls, i + 1, TRUE, content_ended)
    ELSE IF ~content_ended
    THEN IF ls[i].end
         THEN OutputLines(ls, i + 1, TRUE, TRUE)
         ELSE <<Lstrip(ls[i])>> \o OutputLines(ls, i + 1, TRUE, FALSE)
    ELSE OutputLines(ls, i + 1, TRUE, TRUE)

InitHeaders ==
    /\ lines \in ReleaseFiles
    /\ hpc = "start"
    /\ temp_output_file = <<>>
    /\ ExtractIdle
    /\ ElementIdle
    /\ ProcessIdle
    /\ BatchIdle
    /\ ScriptIdle
    /\ CalendarIdle

\* remove_xml_headers(input_file, temp_output_file)
RemoveXmlHeaders ==
    /\ hpc = "start"
    /\ temp_output_file' = OutputLines(lines, 1, FALSE, FALSE)
    /\ hpc' = "done"
    /\ UNCHANGED <<lines, besidesHeaders>>

SpecHeaders == InitHeaders /\ [][RemoveXmlHeaders]_vars

\* C16: no line written to the temporary output file contains an end
\* marker, whatever the input, a release with empty contents included.
C16_NoEndMarkerWritten ==
    hpc = "done" => \A i \in DOMAIN temp_output_file : ~temp_output_file[i].end

(***************************************************************************)
(* extract_process_details of src/scripts/extract_details.py               *)
(***************************************************************************)
\* <stage\s+stageid=..\s+name=..\s+type=..[^>]*(?:onsuccess="([^"]+)")?[^>]*>
\* the first [^>]* is greedy: the number of attributes after type it takes
\* before the optional group is tried
GreedyTaken(t) == Len(t.attrs) - 3

\* match.group(4) if match.group(4) else None
OnsuccessGroup(t) ==
    LET k == 3 + GreedyTaken(t) + 1
    IN  IF k \in DOMAIN t.attrs /\ t.attrs[k].n = "onsuccess" /\ t.attrs[k].v # ""
        THEN S(t.attrs[k].v)
        ELSE None

\* the stages list: one dict per match of the opening-tag pattern
ScriptsStages(c) ==
    LET heads == SelectSeq(c, StageHead)
    IN  [i \in DOMAIN heads |->
            [stageid |-> S(heads[i].attrs[1].v),
             name |-> S(heads[i].attrs[2].v),
             type |-> S(heads[i].attrs[3].v),
             onsuccess |-> OnsuccessGroup(heads[i])]]

\* results = extract_process_details(file_path) of the older script
ScriptsExtract ==
    /\ pc = "start"
    /\ \E order \in Orders(SubsheetSet(Decode(content))) :
          results' = [subsheet_ids |-> order, stages |-> ScriptsStages(Decode(content))]
    /\ pc' = "extracted"
    /\ UNCHANGED <<content, subsheetsCsv, stagesCsv, runs, first_run, besidesExtract>>

SpecScriptsExtract == Init /\ [][ScriptsExtract]_vars

\* C17: for every stage whose opening tag carries an onsuccess attribute
\* after stageid, name and type, the record's 'onsuccess' is that
\* attribute's value; it is None only when the attribute is absent.
C17_OnsuccessAttribute ==
    pc = "extracted" =>
        LET heads == SelectSeq(Decode(content), StageHead)
        IN  /\ Len(results.stages) = Len(heads)
            /\ \A i \in DOMAIN heads :
                  results.stages[i]["onsuccess"]
                    = IF HasAttr(heads[i], "onsuccess")
                      THEN S(AttrOf(heads[i], "onsuccess")) ELSE None

(***************************************************************************)
(* binary_to_dictionary of get_calendar_logic.py                           *)
(***************************************************************************)
\* bin(code)[2:] : the binary digits, most significant first
RECURSIVE Bin(_)
Bin(n) == IF n < 2 THEN <<n>> ELSE Bin(n \div 2) \o <<n % 2>>

\* binary.zfill(width)
Zfill(binary, width) ==
    IF Len(binary) >= width THEN binary
    ELSE [i \in 1..(width - Len(binary)) |-> 0] \o binary

\* [int(digit) for digit in binary][::-1]
Reversed(binary) == [i \in 1..Len(binary) |-> binary[Len(binary) + 1 - i]]

\* the dict binary_to_dictionary(code) returns
BinaryToDictionary(n) ==
    LET bits == Reversed(Zfill(Bin(n), 7))
        bits_array == Tail(bits) \o <<bits[1]>>
    IN  [i \in 0..6 |-> bits_array[i + 1]]

InitCalendar ==
    /\ code \in 0..MaxCode
    /\ cpc = "start"
    /\ days_dictionary = <<>>
    /\ ExtractIdle
    /\ ElementIdle
    /\ ProcessIdle
    /\ BatchIdle
    /\ ScriptIdle
    /\ HeadersIdle

\* days_dictionary = binary_to_dictionary(code)
CalendarDays ==
    /\ cpc = "start"
    /\ days_dictionary' = BinaryToDictionary(code)
    /\ cpc' = "done"
    /\ UNCHANGED <<code, besidesCalendar>>

SpecCalendar == InitCalendar /\ [][CalendarDays]_vars

\* bit k of n
Bit(n, k) == (n \div (2 ^ k)) % 2

\* C19: for every non-negative code the result has exactly the keys 0..6,
\* every value is 0 or 1, and key i holds bit ((i + 1) mod 7) of code: only
\* the low 7 bits are used.
C19_LowSevenBits ==
    cpc = "done" =>
        /\ DOMAIN days_dictionary = 0..6
        /\ \A i \in 0..6 :
              /\ days_dictionary[i] \in {0, 1}
              /\ days_dictionary[i] = Bit(code, (i + 1) % 7)

====
